---- MODULE Spec2Model ----
\* A model of the salvo CORS crate (crates/cors/src/lib.rs): the Cors builder,
\* its validation (ensure_usable_cors_rules), the header joining utility
\* (separated_by_commas) and the request stage CorsHandler::handle.
\*
\* A HeaderValue is a sequence of symbols (strings standing for runs of bytes;
\* "," is the comma byte).  An Option<T> is a sequence of length 0 (None) or
\* 1 (Some).  A HeaderMap is a function from header names to the non-empty
\* sequence of values stored under that name.
EXTENDS Integers, Sequences, FiniteSets

VARIABLES phase, cors, req, prior, res, headers, pc, nextCalls, downstreamRuns,
          joinIn, joinOut

vars == <<phase, cors, req, prior, res, headers, pc, nextCalls, downstreamRuns,
          joinIn, joinOut>>

\* ---------------------------------------------------------------- bounds
MaxTokens == 3
MaxTokenLen == 2

\* ------------------------------------------------------------- constants
NO_CONTENT == 204

WILDCARD == <<"*">>

ORIGIN == "origin"
VARY == "vary"
ACCESS_CONTROL_ALLOW_ORIGIN == "access-control-allow-origin"
ACCESS_CONTROL_ALLOW_CREDENTIALS == "access-control-allow-credentials"
ACCESS_CONTROL_ALLOW_METHODS == "access-control-allow-methods"
ACCESS_CONTROL_ALLOW_HEADERS == "access-control-allow-headers"
ACCESS_CONTROL_MAX_AGE == "access-control-max-age"
ACCESS_CONTROL_EXPOSE_HEADERS == "access-control-expose-headers"
ACCESS_CONTROL_REQUEST_METHOD == "access-control-request-method"
ACCESS_CONTROL_REQUEST_HEADERS == "access-control-request-headers"

OPTIONS == "OPTIONS"

None == << >>

Some(v) == <<v>>

\* ------------------------------------------------------------ HeaderMap
EmptyMap == [n \in {} |-> << >>]

\* HeaderMap::append: adds a value under a name, keeping earlier values.
HeaderAppend(map, name, val) ==
    [n \in DOMAIN map \cup {name} |->
        IF n = name
        THEN IF n \in DOMAIN map THEN Append(map[n], val) ELSE <<val>>
        ELSE map[n]]

\* headers.extend(Option<(HeaderName, HeaderValue)>): appends the entry, if any.
ExtendOption(map, entry) ==
    IF entry = None THEN map
    ELSE HeaderAppend(map, entry[1].name, entry[1].value)

\* dst.extend(src) for a whole HeaderMap: every name of src replaces the
\* values dst held under that name, then src's further values are appended.
ExtendMap(dst, src) ==
    [n \in DOMAIN dst \cup DOMAIN src |->
        IF n \in DOMAIN src THEN src[n] ELSE dst[n]]

\* ------------------------------------------------- separated_by_commas
RECURSIVE JoinRest(_, _)
\* The `for val in iter` loop: put_u8(b',') then extend_from_slice(val).
JoinRest(result, rest) ==
    IF rest = << >> THEN result
    ELSE JoinRest(result \o <<",">> \o Head(rest), Tail(rest))

\* A faulty variant: the comma is put after each value instead of before it.
separated_by_commas_trailing(iter) ==
    IF iter = << >> THEN None
    ELSE Some(JoinRest(Head(iter), Tail(iter)) \o
              (IF Len(iter) > 1 THEN <<",">> ELSE << >>))

separated_by_commas(iter) ==
    IF iter = << >> THEN None
    ELSE Some(JoinRest(Head(iter), Tail(iter)))

\* ------------------------------------------------------------- policies
Policy(kind, set, list) == [kind |-> kind, set |-> set, list |-> list]

Any == Policy("Any", {}, << >>)

MirrorRequest == Policy("MirrorRequest", {}, << >>)

Exact(S) == Policy("Exact", S, << >>)

Predicate(S) == Policy("Predicate", S, << >>)

List(tokens) == Policy("List", {}, tokens)

Yes == Policy("Yes", {}, << >>)

No == Policy("No", {}, << >>)

Entry(name, value) == [name |-> name, value |-> value]

\* AllowOrigin::to_header
AllowOrigin_to_header(p, origin) ==
    CASE p.kind = "Any" -> Some(Entry(ACCESS_CONTROL_ALLOW_ORIGIN, WILDCARD))
      [] p.kind = "Exact" ->
            IF origin # None /\ origin[1] \in p.set
            THEN Some(Entry(ACCESS_CONTROL_ALLOW_ORIGIN, origin[1])) ELSE None
      [] p.kind = "Predicate" ->
            IF origin # None /\ origin[1] \in p.set
            THEN Some(Entry(ACCESS_CONTROL_ALLOW_ORIGIN, origin[1])) ELSE None
      [] p.kind = "MirrorRequest" ->
            IF origin # None
            THEN Some(Entry(ACCESS_CONTROL_ALLOW_ORIGIN, origin[1])) ELSE None

\* AllowCredentials::to_header
AllowCredentials_to_header(p, origin) ==
    CASE p.kind = "Yes" -> Some(Entry(ACCESS_CONTROL_ALLOW_CREDENTIALS, <<"true">>))
      [] p.kind = "Predicate" ->
            IF origin # None /\ origin[1] \in p.set
            THEN Some(Entry(ACCESS_CONTROL_ALLOW_CREDENTIALS, <<"true">>)) ELSE None
      [] p.kind = "No" -> None

\* The shape shared by AllowMethods, AllowHeaders and ExposeHeaders.
ListPolicy_to_header(p, name, mirrored) ==
    CASE p.kind = "Any" -> Some(Entry(name, WILDCARD))
      [] p.kind = "List" ->
            IF separated_by_commas(p.list) = None THEN None
            ELSE Some(Entry(name, separated_by_commas(p.list)[1]))
      [] p.kind = "MirrorRequest" ->
            IF mirrored # None /\ mirrored[1] # << >>
            THEN Some(Entry(name, mirrored[1])) ELSE None

AllowMethods_to_header(p, r) ==
    ListPolicy_to_header(p, ACCESS_CONTROL_ALLOW_METHODS, r.acrm)

AllowHeaders_to_header(p, r) ==
    ListPolicy_to_header(p, ACCESS_CONTROL_ALLOW_HEADERS, r.acrh)

ExposeHeaders_to_header(p) ==
    ListPolicy_to_header(p, ACCESS_CONTROL_EXPOSE_HEADERS, None)

Digit(d) == <<"0", "1", "2", "3", "4", "5", "6", "7", "8", "9">>[d + 1]

RECURSIVE Decimal(_)
\* The seconds rendered in decimal, one symbol per digit.
Decimal(n) ==
    IF n < 10 THEN <<Digit(n)>> ELSE Append(Decimal(n \div 10), Digit(n % 10))

\* MaxAge::to_header: the seconds as a decimal string, or nothing if unset.
MaxAge_to_header(p) ==
    IF p = None THEN None
    ELSE Some(Entry(ACCESS_CONTROL_MAX_AGE, Decimal(p[1])))

\* Vary::values
Vary_values(p) == p

is_true(p) == p.kind = "Yes"

is_wildcard(p) == p.kind = "Any"

\* preflight_request_headers(): the default of the vary policy.
preflight_request_headers ==
    << <<ORIGIN>>, <<ACCESS_CONTROL_REQUEST_METHOD>>, <<ACCESS_CONTROL_REQUEST_HEADERS>> >>

\* ------------------------------------------------------- input domains
Origins == { <<"https://salvo.rs">>, <<"https://google.com">> }

AllowOriginValues ==
    { Exact({}), Any, Exact({ <<"https://salvo.rs">> }),
      Predicate({ <<"https://google.com">> }), MirrorRequest }

AllowCredentialsValues == { No, Yes, Predicate({ <<"https://salvo.rs">> }) }

AllowMethodsValues == { List(<< >>), Any, List(<< <<"GET">>, <<"POST">> >>), MirrorRequest }

AllowHeadersValues == { List(<< >>), Any, List(<< <<"content-type">> >>), MirrorRequest }

ExposeHeadersValues == { List(<< >>), Any, List(<< <<"x-a">>, <<"x-b">> >>) }

MaxAgeValues == { None, Some(30) }

VaryValues == { preflight_request_headers, << >>, << <<ORIGIN>> >> }

Methods == { OPTIONS, "GET" }

RequestMethodValues == { None, Some(<<"POST">>) }

RequestHeadersValues == { None, Some(<<"content-type">>) }

Requests ==
    [method : Methods, origin : {None} \cup {Some(o) : o \in Origins},
     acrm : RequestMethodValues, acrh : RequestHeadersValues]

\* What an earlier stage may have left in the response's headers.
PriorHeaders == { EmptyMap, HeaderAppend(EmptyMap, VARY, <<"accept-encoding">>) }

NoRequest == [method |-> "GET", origin |-> None, acrm |-> None, acrh |-> None]

FreshResponse == [status_code |-> None, headers |-> EmptyMap, body |-> None]

\* ------------------------------------------------------------------ Cors
\* Cors::new: every policy at its default.
new ==
    [allow_credentials |-> No, allow_headers |-> List(<< >>),
     allow_methods |-> List(<< >>), allow_origin |-> Exact({}),
     expose_headers |-> List(<< >>), max_age |-> None,
     vary |-> preflight_request_headers]

\* A faulty variant: the check of expose_headers is missing.
ensure_usable_cors_rules_no_expose(self) ==
    is_true(self.allow_credentials) =>
        /\ ~is_wildcard(self.allow_headers)
        /\ ~is_wildcard(self.allow_methods)
        /\ ~is_wildcard(self.allow_origin)

\* TRUE when every assertion passes, FALSE when one of them panics.
ensure_usable_cors_rules(self) ==
    is_true(self.allow_credentials) =>
        /\ ~is_wildcard(self.allow_headers)
        /\ ~is_wildcard(self.allow_methods)
        /\ ~is_wildcard(self.allow_origin)
        /\ ~is_wildcard(self.expose_headers)

\* ---------------------------------------------------- CorsHandler::handle
\* A faulty variant: the origin policy's header is never added.
CommonHeaders_no_origin(self, r) ==
    ExtendOption(EmptyMap, AllowCredentials_to_header(self.allow_credentials, r.origin))

\* A faulty variant: a `Vary: Origin` is recorded along with an origin-dependent
\* Access-Control-Allow-Origin, before the vary policy is applied.
CommonHeaders_vary_origin(self, r) ==
    LET h == ExtendOption(
                ExtendOption(EmptyMap, AllowOrigin_to_header(self.allow_origin, r.origin)),
                AllowCredentials_to_header(self.allow_credentials, r.origin))
    IN IF ACCESS_CONTROL_ALLOW_ORIGIN \in DOMAIN h /\ ~is_wildcard(self.allow_origin)
       THEN HeaderAppend(h, VARY, <<ORIGIN>>) ELSE h

\* The headers applied to both preflight and regular requests, added to a new
\* HeaderMap.
CommonHeaders(self, r) ==
    ExtendOption(
        ExtendOption(EmptyMap, AllowOrigin_to_header(self.allow_origin, r.origin)),
        AllowCredentials_to_header(self.allow_credentials, r.origin))

\* headers.entry(VARY) is Entry::Occupied: the arm that is unreachable!().
VaryOccupied(h) == VARY \in DOMAIN h

\* VacantEntry::insert_entry
InsertEntry(h, name, val) ==
    [n \in DOMAIN h \cup {name} |-> IF n = name THEN <<val>> ELSE h[n]]

RECURSIVE AppendAll(_, _, _)
\* The `for val in vary_headers` loop: header.append(val).
AppendAll(h, name, vals) ==
    IF vals = << >> THEN h
    ELSE AppendAll(HeaderAppend(h, name, Head(vals)), name, Tail(vals))

\* A faulty variant: only the first vary value is stored.
InsertVary_first_only(h, values) ==
    IF values = << >> THEN h ELSE InsertEntry(h, VARY, Head(values))

\* The Vary entry: the first value inserted, the others appended to the entry.
InsertVary(h, values) ==
    IF values = << >> THEN h
    ELSE AppendAll(InsertEntry(h, VARY, Head(values)), VARY, Tail(values))

\* A faulty variant: the expose-headers policy is applied to every request.
BranchHeaders_expose_always(h, self, r) ==
    IF r.method = OPTIONS
    THEN ExtendOption(
            ExtendOption(
                ExtendOption(
                    ExtendOption(h, AllowMethods_to_header(self.allow_methods, r)),
                    AllowHeaders_to_header(self.allow_headers, r)),
                MaxAge_to_header(self.max_age)),
            ExposeHeaders_to_header(self.expose_headers))
    ELSE ExtendOption(h, ExposeHeaders_to_header(self.expose_headers))

\* The branch on the request method: the preflight-only headers, or the
\* header of regular requests.
BranchHeaders(h, self, r) ==
    IF r.method = OPTIONS
    THEN ExtendOption(
            ExtendOption(
                ExtendOption(h, AllowMethods_to_header(self.allow_methods, r)),
                AllowHeaders_to_header(self.allow_headers, r)),
            MaxAge_to_header(self.max_age))
    ELSE ExtendOption(h, ExposeHeaders_to_header(self.expose_headers))

\* A faulty variant: the status is set on both branches.
BranchStatus_always(status, r) == Some(NO_CONTENT)

\* res.status_code after the branch: set on the preflight branch only.
BranchStatus(status, r) ==
    IF r.method = OPTIONS THEN Some(NO_CONTENT) ELSE status

\* The per-request header map, or the panic of the unreachable!() arm.
StageHeaders(self, r) ==
    LET common == CommonHeaders(self, r)
        values == Vary_values(self.vary)
    IN IF values # << >> /\ VaryOccupied(common)
       THEN [unreachable |-> TRUE, headers |-> common]
       ELSE [unreachable |-> FALSE,
             headers |-> BranchHeaders(InsertVary(common, values), self, r)]

\* The downstream handler of the crate's test: it renders "hello".
hello(response) == [response EXCEPT !.body = Some("hello")]

\* --------------------------------------------------------------- actions
Building == phase = "building"

Frame == UNCHANGED <<req, prior, res, headers, pc, nextCalls, downstreamRuns,
                     joinIn, joinOut>>

permissive ==
    /\ Building
    /\ cors' = [new EXCEPT !.allow_headers = Any, !.allow_methods = Any,
                           !.allow_origin = Any, !.expose_headers = Any]
    /\ UNCHANGED phase /\ Frame

very_permissive ==
    /\ Building
    /\ cors' = [new EXCEPT !.allow_credentials = Yes,
                           !.allow_headers = MirrorRequest,
                           !.allow_methods = MirrorRequest,
                           !.allow_origin = MirrorRequest]
    /\ UNCHANGED phase /\ Frame

allow_credentials ==
    /\ Building
    /\ \E v \in AllowCredentialsValues : cors' = [cors EXCEPT !.allow_credentials = v]
    /\ UNCHANGED phase /\ Frame

allow_headers ==
    /\ Building
    /\ \E v \in AllowHeadersValues : cors' = [cors EXCEPT !.allow_headers = v]
    /\ UNCHANGED phase /\ Frame

max_age ==
    /\ Building
    /\ \E v \in MaxAgeValues : cors' = [cors EXCEPT !.max_age = v]
    /\ UNCHANGED phase /\ Frame

allow_methods ==
    /\ Building
    /\ \E v \in AllowMethodsValues : cors' = [cors EXCEPT !.allow_methods = v]
    /\ UNCHANGED phase /\ Frame

allow_origin ==
    /\ Building
    /\ \E v \in AllowOriginValues : cors' = [cors EXCEPT !.allow_origin = v]
    /\ UNCHANGED phase /\ Frame

expose_headers ==
    /\ Building
    /\ \E v \in ExposeHeadersValues : cors' = [cors EXCEPT !.expose_headers = v]
    /\ UNCHANGED phase /\ Frame

vary ==
    /\ Building
    /\ \E v \in VaryValues : cors' = [cors EXCEPT !.vary = v]
    /\ UNCHANGED phase /\ Frame

\* Cors::into_handler: the validation, then the handler; a failed assertion
\* panics and no handler exists.
into_handler ==
    /\ Building
    /\ phase' = IF ensure_usable_cors_rules(cors) THEN "serving" ELSE "panicked"
    /\ UNCHANGED cors /\ Frame

\* CorsHandler::handle up to the call of ctrl.call_next: the per-request
\* headers, the status, the merge into the response, the hand-off.
handle ==
    /\ phase = "serving"
    /\ pc = "idle"
    /\ \E r \in Requests, p \in PriorHeaders :
         LET stage == StageHeaders(cors, r)
         IN /\ req' = r
            /\ prior' = p
            /\ headers' = stage.headers
            /\ downstreamRuns' = 0
            /\ IF stage.unreachable
               THEN /\ pc' = "panicked"
                    /\ res' = [FreshResponse EXCEPT !.headers = p]
                    /\ nextCalls' = 0
               ELSE /\ pc' = "call_next"
                    /\ res' = [status_code |-> BranchStatus(None, r),
                               headers |-> ExtendMap(p, stage.headers),
                               body |-> None]
                    /\ nextCalls' = 1
    /\ UNCHANGED <<phase, cors, joinIn, joinOut>>

\* FlowCtrl::call_next and the return of handle: the next stage runs on the
\* request and response, and handle returns when it has completed.
call_next ==
    /\ pc = "call_next"
    /\ res' = hello(res)
    /\ downstreamRuns' = downstreamRuns + 1
    /\ pc' = "done"
    /\ UNCHANGED <<phase, cors, req, prior, headers, nextCalls, joinIn, joinOut>>

\* The host pipeline sends the response; the request's response and header map
\* are discarded and the stage is ready for the next request.
respond ==
    /\ pc = "done"
    /\ pc' = "idle"
    /\ req' = NoRequest
    /\ prior' = EmptyMap
    /\ res' = FreshResponse
    /\ headers' = EmptyMap
    /\ nextCalls' = 0
    /\ downstreamRuns' = 0
    /\ UNCHANGED <<phase, cors, joinIn, joinOut>>

Init ==
    /\ phase = "building"
    /\ cors = new
    /\ req = NoRequest
    /\ prior = EmptyMap
    /\ res = FreshResponse
    /\ headers = EmptyMap
    /\ pc = "idle"
    /\ nextCalls = 0
    /\ downstreamRuns = 0
    /\ joinIn = << >>
    /\ joinOut = [done |-> FALSE, value |-> None]

Next ==
    \/ permissive
    \/ very_permissive
    \/ allow_credentials
    \/ allow_headers
    \/ max_age
    \/ allow_methods
    \/ allow_origin
    \/ expose_headers
    \/ vary
    \/ into_handler
    \/ handle
    \/ call_next
    \/ respond

Spec == Init /\ [][Next]_vars

\* ------------------------------------------ separated_by_commas, alone
Symbols == {"a", "b"}

RECURSIVE SeqsUpTo(_, _)
\* The sequences over S of length at most n.
SeqsUpTo(S, n) ==
    IF n = 0 THEN { << >> }
    ELSE SeqsUpTo(S, n - 1) \cup
         { Append(q, x) : q \in { t \in SeqsUpTo(S, n - 1) : Len(t) = n - 1 }, x \in S }

\* The list tokens: non-empty runs of symbols, none of them a comma.
Tokens == SeqsUpTo(Symbols, MaxTokenLen) \ { << >> }

TokenLists == SeqsUpTo(Tokens, MaxTokens)

InitJoin ==
    /\ phase = "building"
    /\ cors = new
    /\ req = NoRequest
    /\ prior = EmptyMap
    /\ res = FreshResponse
    /\ headers = EmptyMap
    /\ pc = "idle"
    /\ nextCalls = 0
    /\ downstreamRuns = 0
    /\ joinIn \in TokenLists
    /\ joinOut = [done |-> FALSE, value |-> None]

Join ==
    /\ ~joinOut.done
    /\ joinOut' = [done |-> TRUE, value |-> separated_by_commas(joinIn)]
    /\ UNCHANGED <<phase, cors, req, prior, res, headers, pc, nextCalls,
                   downstreamRuns, joinIn>>

NextJoin == Join

SpecJoin == InitJoin /\ [][NextJoin]_vars

\* ---------------------------------------------------------------- claims
Handled == phase = "serving" /\ pc \in {"call_next", "done"}

Preflight == req.method = OPTIONS

\* C1: every OPTIONS request handled by the stage ends with status 204 and is
\* never forwarded: call_next is not invoked and the downstream handler does
\* not run, so none of its side effects occur.
C1_PreflightNeverForwarded ==
    (Handled /\ Preflight) =>
        /\ res.status_code = Some(NO_CONTENT)
        /\ nextCalls = 0
        /\ downstreamRuns = 0
        /\ res.body = None

AnyWildcard(self) ==
    \/ is_wildcard(self.allow_headers)
    \/ is_wildcard(self.allow_methods)
    \/ is_wildcard(self.allow_origin)
    \/ is_wildcard(self.expose_headers)

\* C2: a configuration whose credentials policy is statically true and one of
\* whose four list policies is the wildcard never becomes a handler, and no
\* request is processed without a handler, whatever setters built it.
C2_CredentialsWithWildcardFailsBuild ==
    /\ (is_true(cors.allow_credentials) /\ AnyWildcard(cors)) => phase # "serving"
    /\ phase # "serving" => (pc = "idle" /\ res = FreshResponse /\ nextCalls = 0)

\* C2, its case: the build of such a configuration has panicked.
C2_Witness ==
    /\ phase = "panicked"
    /\ is_true(cors.allow_credentials)
    /\ is_wildcard(cors.expose_headers)
    /\ ~is_wildcard(cors.allow_origin)

\* C3: the stage's header map holds Access-Control-Allow-Methods or
\* Access-Control-Allow-Headers only for an OPTIONS request, and
\* Access-Control-Expose-Headers only for a request that is not OPTIONS.
C3_BranchHeadersByMethod ==
    /\ (ACCESS_CONTROL_ALLOW_METHODS \in DOMAIN headers
        \/ ACCESS_CONTROL_ALLOW_HEADERS \in DOMAIN headers) => Preflight
    /\ ACCESS_CONTROL_EXPOSE_HEADERS \in DOMAIN headers => ~Preflight

\* C3, its case: a preflight with both preflight-only headers, under a
\* configuration whose expose-headers policy would emit a header.
C3_Witness ==
    /\ Handled /\ Preflight
    /\ ACCESS_CONTROL_ALLOW_METHODS \in DOMAIN headers
    /\ ACCESS_CONTROL_ALLOW_HEADERS \in DOMAIN headers
    /\ ExposeHeaders_to_header(cors.expose_headers) # None

OriginAllowed == req.origin # None /\ req.origin[1] \in cors.allow_origin.set

\* C4: under an Exact origin allow-list and List methods and headers policies,
\* an OPTIONS request whose Origin is absent or not in the allow-list gets no
\* Access-Control-Allow-Methods, no Access-Control-Allow-Headers and no
\* Access-Control-Allow-Origin.
C4_NoPreflightHeadersForOtherOrigin ==
    (/\ Handled /\ Preflight
     /\ cors.allow_origin.kind = "Exact"
     /\ cors.allow_methods.kind = "List"
     /\ cors.allow_headers.kind = "List"
     /\ ~OriginAllowed) =>
        /\ ACCESS_CONTROL_ALLOW_METHODS \notin DOMAIN res.headers
        /\ ACCESS_CONTROL_ALLOW_HEADERS \notin DOMAIN res.headers
        /\ ACCESS_CONTROL_ALLOW_ORIGIN \notin DOMAIN res.headers

\* C5: under Exact(S) the response carries Access-Control-Allow-Origin exactly
\* when the request has an Origin that is a member of S; the value carried is
\* the request's Origin and never the wildcard.
C5_ExactOriginEchoed ==
    (Handled /\ cors.allow_origin.kind = "Exact") =>
        /\ ACCESS_CONTROL_ALLOW_ORIGIN \in DOMAIN res.headers <=> OriginAllowed
        /\ ACCESS_CONTROL_ALLOW_ORIGIN \in DOMAIN res.headers =>
              /\ res.headers[ACCESS_CONTROL_ALLOW_ORIGIN] = <<req.origin[1]>>
              /\ res.headers[ACCESS_CONTROL_ALLOW_ORIGIN] # <<WILDCARD>>

\* C5, its case: a request from an allowed origin, answered with that origin.
C5_Witness ==
    /\ Handled
    /\ cors.allow_origin.kind = "Exact"
    /\ OriginAllowed
    /\ ACCESS_CONTROL_ALLOW_ORIGIN \in DOMAIN res.headers

\* C6 as stated: a non-empty vary policy gives exactly one Vary value, the
\* configured names joined by commas; an empty one gives no Vary header.
C6_VaryOneJoinedValue ==
    Handled =>
        IF cors.vary = << >>
        THEN VARY \notin DOMAIN headers
        ELSE /\ VARY \in DOMAIN headers
             /\ headers[VARY] = separated_by_commas(cors.vary)

\* C6 as amended: a non-empty vary policy gives one Vary entry holding the
\* configured names as separate values, one per name, in the configured
\* order; an empty one gives no Vary header; for every method and Origin.
C6_VaryOneValuePerName ==
    Handled =>
        IF cors.vary = << >>
        THEN VARY \notin DOMAIN headers
        ELSE /\ VARY \in DOMAIN headers
             /\ headers[VARY] = cors.vary

\* C6, its case: a policy of several names, stored as several values.
C6_Witness ==
    /\ Handled
    /\ Len(cors.vary) > 1
    /\ VARY \in DOMAIN headers
    /\ Len(headers[VARY]) = Len(cors.vary)

RECURSIVE SumLen(_, _)
\* The total length of the first k tokens.
SumLen(tokens, k) ==
    IF k = 0 THEN 0 ELSE SumLen(tokens, k - 1) + Len(tokens[k])

\* Where token i starts in the joined value: after the i - 1 tokens before it
\* and one comma for each.
Start(tokens, i) == SumLen(tokens, i - 1) + (i - 1)

\* C7: the joined value is the tokens in the given order, each pair parted by
\* exactly one comma, nothing before the first or after the last, nothing else
\* added; an empty sequence gives no value.
C7_JoinedByCommas ==
    joinOut.done =>
        IF joinIn = << >>
        THEN joinOut.value = None
        ELSE /\ Len(joinOut.value) = 1
             /\ LET v == joinOut.value[1]
                    n == Len(joinIn)
                IN /\ Len(v) = SumLen(joinIn, n) + (n - 1)
                   /\ \A i \in 1..n :
                        /\ \A k \in 1..Len(joinIn[i]) :
                              v[Start(joinIn, i) + k] = joinIn[i][k]
                        /\ i > 1 => v[Start(joinIn, i)] = ","
                   /\ v[1] # ","
                   /\ v[Len(v)] # ","
                   /\ \A k \in 1..(Len(v) - 1) : ~(v[k] = "," /\ v[k + 1] = ",")

\* C7, its case: three tokens, out of order and with a duplicate, joined.
C7_Witness ==
    /\ joinOut.done
    /\ Len(joinIn) >= 3
    /\ joinIn[1] = joinIn[3]
    /\ joinIn[1] # joinIn[2]
    /\ joinOut.value # None

Merged == \A n \in DOMAIN headers : n \in DOMAIN res.headers /\ res.headers[n] = headers[n]

\* C8: for a request that is not OPTIONS the computed headers are in the
\* response when the request is forwarded, it is forwarded exactly once, the
\* stage returns only when the downstream stage has run, and the stage leaves
\* the response status as it was.
C8_RegularRequestForwarded ==
    (Handled /\ ~Preflight) =>
        /\ Merged
        /\ nextCalls = 1
        /\ res.status_code = None
        /\ pc = "call_next" => downstreamRuns = 0
        /\ pc = "done" => downstreamRuns = 1

\* C8, its case: a regular request, its header merged, downstream completed.
C8_Witness ==
    /\ Handled /\ ~Preflight
    /\ pc = "done"
    /\ ACCESS_CONTROL_EXPOSE_HEADERS \in DOMAIN res.headers
    /\ downstreamRuns = 1
    /\ res.body = Some("hello")

Values(q) == { q[i] : i \in 1..Len(q) }

\* C9: a Vary header the response already carries is merged with the
\* configured names: every earlier value is still there after the stage.
C9_PriorVaryMerged ==
    (Handled /\ VARY \in DOMAIN prior) =>
        /\ VARY \in DOMAIN res.headers
        /\ Values(prior[VARY]) \subseteq Values(res.headers[VARY])
        /\ Values(cors.vary) \subseteq Values(res.headers[VARY])

\* C10: when the stage inserts Vary its header map holds no Vary entry: the
\* unreachable arm is never taken and handling never aborts, whatever the
\* origin and credentials policies returned and whatever the response carries.
C10_VaryEntryVacant ==
    /\ pc # "panicked"
    /\ Handled => ~VaryOccupied(CommonHeaders(cors, req))

\* C10, its case: both common headers emitted, a vary policy to insert, and a
\* response that already carries Vary.
C10_Witness ==
    /\ Handled
    /\ cors.vary # << >>
    /\ VARY \in DOMAIN prior
    /\ ACCESS_CONTROL_ALLOW_ORIGIN \in DOMAIN headers
    /\ ACCESS_CONTROL_ALLOW_CREDENTIALS \in DOMAIN headers

====
